---- MODULE Spec2Model ----
(***************************************************************************)
(* Place-A-Bet: the settlement engine (calculatePayouts), the bet lifecycle *)
(* routes (create, wager, close, settle) and the party routes, over the     *)
(* five tables of the SQLite schema.                                        *)
(*                                                                          *)
(* Money: wager amounts are whole currency units.  A value the code rounds  *)
(* to two decimals (Math.round(x * 100) / 100) is held as the integer       *)
(* Math.round(x * 100), that is in cents; payout and netWinLoss are cents,  *)
(* amount and totalWagered are units.                                       *)
(***************************************************************************)
EXTENDS Integers, Sequences, FiniteSets, TLC

\* ------------------------------------------------------------------ bounds
\* longest wager list handed to calculatePayouts in SpecCalc
MaxCalcWagers == 5
\* option ids that wagers of SpecCalc are placed on, and the winning option
\* ids tried (3 is an option nobody has a wager on)
CalcOptionIds == {1, 2}
CalcWinningInputs == {1, 2, 3}

\* user names of SpecCalc, in the order in which new names are introduced
CalcUsers == <<"Alice", "Bob", "Carol", "Dave">>
\* wager amounts of SpecCalc (whole units)
CalcAmounts == {1, 5}

\* SpecWide: longest wager list, and the wager amounts (whole units) drawn
MaxWideWagers == 3
WideAmounts == {7, 33}

\* SpecParty: most rows of table parties and wagers, the guest names and the
\* wager amounts drawn
MaxPartyParties == 2
MaxPartyWagers == 2
PartyUsers == {"Alice", "constructor"}
PartyAmounts == {1}

\* most rows of table parties, bets, wagers
MaxParties == 1
MaxBets == 2
MaxWagers == 2
\* SpecConc: most requests in flight at once, and most requests started
MaxInflight == 2
MaxRequests == 4
\* most options a create-bet request of the model names (the schema allows 10)
MaxOptions == 2

\* fewest options of a bet: createBetSchema, options.min(2)
MinOptions == 2
\* most options of a bet: createBetSchema, options.max(10)
MaxOptionsAllowed == 10
\* largest amount of a wager: createWagerSchema, amount.max(10000)
MaxAmount == 10000
\* a NULL column (winning_option_id before settlement); row ids start at 1
NULL == 0

\* guest names, and the wager amounts requests carry (0 is refused)
Users == {"Alice", "Bob"}
AmountInputs == {0, 1}

\* a field absent from a request body
Undefined == "undefined"
\* process.env.HOST_PIN as the deployment guide and the tests set it
HOST_PIN == <<1, 2, 3, 4>>
\* hostPin of a request: absent (<<>>), the host's, another one, a malformed one
PinInputs == {<<>>, <<1, 2, 3, 4>>, <<9, 9, 9, 9>>, <<1, 2>>}
\* createdBy of a close or settle request
CreatorInputs == Users \cup {Undefined}

\* --------------------------------------------------------- JavaScript numbers
\* A JavaScript number is an IEEE 754 double: a sign, a significand of 53 bits
\* and a binary exponent.  Here it is the record [neg, m, exp] of value
\* (-1)^neg * m * 2^exp.  The significand m is a natural number below 2^53
\* written in base 2^13, most significant digit first and without leading
\* zero digits (TLC's integers have 32 bits, m has 53); <<>> is zero.
\* Every operation computes the exact result and rounds it to the nearest
\* double, a tie to the even significand (roundTiesToEven).  The values of
\* the calculator are far from the subnormal and the overflow range.
MantissaBits == 53
LimbBits == 13
Limb == 2 ^ LimbBits
\* binary places computed of a quotient; the operands are below 2^17
DivShift == 6 * LimbBits

RECURSIVE NatOfInt(_)
NatOfInt(n) == IF n = 0 THEN <<>> ELSE Append(NatOfInt(n \div Limb), n % Limb)

RECURSIVE IntOfNat(_)
IntOfNat(m) ==
    IF m = <<>> THEN 0
    ELSE Limb * IntOfNat(SubSeq(m, 1, Len(m) - 1)) + m[Len(m)]

ZeroLimbs(k) == [i \in 1..k |-> 0]

\* without leading zero digits
NatStrip(m) ==
    LET nz == {i \in DOMAIN m : m[i] # 0}
    IN  IF nz = {} THEN <<>>
        ELSE SubSeq(m, CHOOSE i \in nz : \A j \in nz : i <= j, Len(m))

\* number of bits of m
NatBitLen(m) ==
    IF m = <<>> THEN 0
    ELSE LimbBits * (Len(m) - 1)
         + (CHOOSE k \in 1..LimbBits : 2 ^ (k - 1) <= m[1] /\ m[1] < 2 ^ k)

RECURSIVE NatMulAcc(_, _, _, _)
NatMulAcc(m, i, f, carry) ==
    IF i = 0 THEN NatOfInt(carry)
    ELSE LET v == m[i] * f + carry
         IN  Append(NatMulAcc(m, i - 1, f, v \div Limb), v % Limb)

\* m * f for a small integer f
NatMul(m, f) == NatStrip(NatMulAcc(m, Len(m), f, 0))

RECURSIVE NatDivAcc(_, _, _, _)
NatDivAcc(m, i, w, acc) ==
    IF i > Len(m) THEN acc
    ELSE LET v == acc.rem * Limb + m[i]
         IN  NatDivAcc(m, i + 1, w,
                       [q |-> Append(acc.q, v \div w), rem |-> v % w])

\* quotient and remainder of m by a small integer w
NatDiv(m, w) ==
    LET d == NatDivAcc(m, 1, w, [q |-> <<>>, rem |-> 0])
    IN  [q |-> NatStrip(d.q), rem |-> d.rem]

\* m * 2^k
NatShiftLeft(m, k) ==
    IF m = <<>> THEN <<>>
    ELSE NatMul(m \o ZeroLimbs(k \div LimbBits), 2 ^ (k % LimbBits))

RECURSIVE NatIncAt(_, _)
\* m + 1, the carry entering at digit i
NatIncAt(m, i) ==
    IF i = 0 THEN <<1>> \o m
    ELSE IF m[i] < Limb - 1 THEN [m EXCEPT ![i] = m[i] + 1]
         ELSE NatIncAt([m EXCEPT ![i] = 0], i - 1)

\* a < b for digit sequences of one length
NatLess(a, b) ==
    \E i \in DOMAIN a :
        /\ a[i] < b[i]
        /\ \A j \in 1..(i - 1) : a[j] = b[j]

RECURSIVE NatSubAcc(_, _, _, _)
\* a - b for digit sequences of one length, a >= b
NatSubAcc(a, b, i, borrow) ==
    IF i = 0 THEN <<>>
    ELSE LET v == a[i] - b[i] - borrow
         IN  IF v < 0 THEN Append(NatSubAcc(a, b, i - 1, 1), v + Limb)
             ELSE Append(NatSubAcc(a, b, i - 1, 0), v)

\* m without its d lowest bits: the quotient q of m by 2^d, the highest
\* dropped bit (guard) and whether a lower dropped bit is set (sticky)
NatDropBits(m, d) ==
    LET n == Len(m)
        j == d \div LimbBits
        k == d % LimbBits
        keep == IF j >= n THEN <<>> ELSE SubSeq(m, 1, n - j)
        low == IF j >= n THEN m ELSE SubSeq(m, n - j + 1, n)
        first == IF j = 0 \/ j > n THEN 0 ELSE m[n - j + 1]
        dk == NatDiv(keep, 2 ^ k)
    IN  IF k > 0
        THEN [q |-> dk.q,
              guard |-> IF dk.rem >= 2 ^ (k - 1) THEN 1 ELSE 0,
              sticky |-> \/ dk.rem % (2 ^ (k - 1)) # 0
                         \/ \E i \in DOMAIN low : low[i] # 0]
        ELSE [q |-> keep,
              guard |-> IF first >= Limb \div 2 THEN 1 ELSE 0,
              sticky |-> \/ first % (Limb \div 2) # 0
                         \/ IF j > n THEN m # <<>>
                            ELSE \E i \in 2..j : low[i] # 0]

F64Zero == [neg |-> FALSE, m |-> <<>>, exp |-> 0]

\* the double nearest to (-1)^neg * (m + e) * 2^exp, where 0 < e < 1 if
\* inexact and e = 0 otherwise
RoundToDouble(neg, m, exp, inexact) ==
    LET len == NatBitLen(m)
        d == len - MantissaBits
        dropped == NatDropBits(m, d)
        up == /\ dropped.guard = 1
              /\ \/ dropped.sticky
                 \/ inexact
                 \/ dropped.q[Len(dropped.q)] % 2 = 1
        r == IF up THEN NatIncAt(dropped.q, Len(dropped.q)) ELSE dropped.q
    IN  IF len <= MantissaBits THEN [neg |-> neg, m |-> m, exp |-> exp]
        ELSE IF NatBitLen(r) > MantissaBits
             THEN [neg |-> neg, m |-> NatDropBits(r, 1).q, exp |-> exp + d + 1]
             ELSE [neg |-> neg, m |-> r, exp |-> exp + d]

\* a / w for integers a >= 0 and w > 0
F64Div(a, w) ==
    IF a = 0 THEN F64Zero
    ELSE LET d == NatDiv(NatShiftLeft(NatOfInt(a), DivShift), w)
         IN  RoundToDouble(FALSE, d.q, 0 - DivShift, d.rem # 0)

\* x * f for a double x and an integer f >= 0
F64MulInt(x, f) ==
    IF x.m = <<>> \/ f = 0 THEN F64Zero
    ELSE RoundToDouble(x.neg, NatMul(x.m, f), x.exp, FALSE)

\* x - t for a double x >= 0 and an integer t >= 0
F64SubInt(x, t) ==
    LET k == IF x.exp > 0 THEN 0 ELSE 0 - x.exp
        xm == IF x.exp > 0 THEN NatShiftLeft(x.m, x.exp) ELSE x.m
        tm == NatShiftLeft(NatOfInt(t), k)
        len == IF Len(xm) > Len(tm) THEN Len(xm) ELSE Len(tm)
        a == ZeroLimbs(len - Len(xm)) \o xm
        b == ZeroLimbs(len - Len(tm)) \o tm
    IN  IF a = b THEN F64Zero
        ELSE IF NatLess(a, b)
             THEN RoundToDouble(TRUE, NatStrip(NatSubAcc(b, a, len, 0)),
                                0 - k, FALSE)
             ELSE RoundToDouble(FALSE, NatStrip(NatSubAcc(a, b, len, 0)),
                                0 - k, FALSE)

RECURSIVE NatAddAcc(_, _, _, _)
\* a + b for digit sequences of one length
NatAddAcc(a, b, i, carry) ==
    IF i = 0 THEN NatOfInt(carry)
    ELSE LET v == a[i] + b[i] + carry
         IN  Append(NatAddAcc(a, b, i - 1, v \div Limb), v % Limb)

\* x + y for doubles x and y (-0 and 0 are one value here)
F64Add(x, y) ==
    IF x.m = <<>> THEN y
    ELSE IF y.m = <<>> THEN x
    ELSE LET exp == IF x.exp < y.exp THEN x.exp ELSE y.exp
             xm == NatShiftLeft(x.m, x.exp - exp)
             ym == NatShiftLeft(y.m, y.exp - exp)
             len == IF Len(xm) > Len(ym) THEN Len(xm) ELSE Len(ym)
             a == ZeroLimbs(len - Len(xm)) \o xm
             b == ZeroLimbs(len - Len(ym)) \o ym
         IN  IF x.neg = y.neg
             THEN RoundToDouble(x.neg, NatStrip(NatAddAcc(a, b, len, 0)),
                                exp, FALSE)
             ELSE IF a = b THEN F64Zero
             ELSE IF NatLess(a, b)
                  THEN RoundToDouble(y.neg, NatStrip(NatSubAcc(b, a, len, 0)),
                                     exp, FALSE)
                  ELSE RoundToDouble(x.neg, NatStrip(NatSubAcc(a, b, len, 0)),
                                     exp, FALSE)

\* the double k / 100 for an integer k: the value Math.round(x * 100) / 100
\* that the calculator returns and the settlements table stores
F64OfCents(k) ==
    IF k < 0 THEN [F64Div(0 - k, 100) EXCEPT !.neg = TRUE]
    ELSE F64Div(k, 100)

MathRoundDown(x) ==
    LET k == IF x.exp > 0 THEN 0 ELSE 0 - x.exp
        xm == IF x.exp > 0 THEN NatShiftLeft(x.m, x.exp) ELSE x.m
        dropped == NatDropBits(xm, k)
        int == IntOfNat(dropped.q)
    IN  IF x.neg
        THEN 0 - (int + (IF dropped.guard = 1 \/ dropped.sticky THEN 1 ELSE 0))
        ELSE int

\* Math.round(x): the integer nearest to x, a tie towards +Infinity
MathRound(x) ==
    LET k == IF x.exp > 0 THEN 0 ELSE 0 - x.exp
        xm == IF x.exp > 0 THEN NatShiftLeft(x.m, x.exp) ELSE x.m
        dropped == NatDropBits(xm, k)
        int == IntOfNat(dropped.q)
    IN  IF x.neg
        THEN 0 - (int + (IF dropped.guard = 1 /\ dropped.sticky THEN 1 ELSE 0))
        ELSE int + dropped.guard

\* ------------------------------------------------------ payout-calculator.ts
RECURSIVE SumAmount(_)
\* wagers.reduce((sum, wager) => sum + wager.amount, 0)
SumAmount(ws) ==
    IF ws = <<>> THEN 0 ELSE Head(ws).amount + SumAmount(Tail(ws))

\* wagers.filter(wager => wager.optionId === winningOptionId)
OnOption(ws, optionId) == SelectSeq(ws, LAMBDA w : w.optionId = optionId)

\* the wagers of one user
OfUser(ws, userName) == SelectSeq(ws, LAMBDA w : w.userName = userName)

RECURSIVE MapKeysPerWager(_, _)
MapKeysPerWager(ws, keys) ==
    IF ws = <<>> THEN keys
    ELSE MapKeysPerWager(Tail(ws), Append(keys, Head(ws).userName))

RECURSIVE MapKeys(_, _)
\* the keys of the Map filled by wagers.forEach, in insertion order
\* (a Map iterates in the order in which its keys were first set)
MapKeys(ws, keys) ==
    IF ws = <<>> THEN keys
    ELSE MapKeys(Tail(ws),
                 IF \E i \in DOMAIN keys : keys[i] = Head(ws).userName
                 THEN keys
                 ELSE Append(keys, Head(ws).userName))

RECURSIVE InsertByNetAscending(_, _)
InsertByNetAscending(sorted, r) ==
    IF sorted = <<>> THEN <<r>>
    ELSE IF Head(sorted).netWinLoss <= r.netWinLoss
         THEN <<Head(sorted)>> \o InsertByNetAscending(Tail(sorted), r)
         ELSE <<r>> \o sorted

RECURSIVE InsertByNet(_, _)
\* place r behind every element whose netWinLoss is not smaller
InsertByNet(sorted, r) ==
    IF sorted = <<>> THEN <<r>>
    ELSE IF Head(sorted).netWinLoss >= r.netWinLoss
         THEN <<Head(sorted)>> \o InsertByNet(Tail(sorted), r)
         ELSE <<r>> \o sorted

RECURSIVE SortByNetFrom(_, _)
SortByNetFrom(rs, sorted) ==
    IF rs = <<>> THEN sorted
    ELSE SortByNetFrom(Tail(rs), InsertByNet(sorted, Head(rs)))

SortByNetNone(rs) == rs

\* results.sort((a, b) => b.netWinLoss - a.netWinLoss): Array.prototype.sort
\* is stable, so equal elements keep their Map order
SortByNet(rs) == SortByNetFrom(rs, <<>>)

LoserResultRefund(ws, userName) ==
    LET totalWagered == SumAmount(OfUser(ws, userName))
    IN  [userName |-> userName,
         totalWagered |-> totalWagered,
         payout |-> 100 * totalWagered,
         netWinLoss |-> 0]

\* the winningPool === 0 branch: everyone loses the stake
LoserResult(ws, userName) ==
    LET totalWagered == SumAmount(OfUser(ws, userName))
    IN  [userName |-> userName,
         totalWagered |-> totalWagered,
         payout |-> 0,
         netWinLoss |-> 0 - 100 * totalWagered]

PayoutResultLosersPoolOnly(ws, winningOptionId, userName) ==
    LET totalPool == SumAmount(ws)
        winningPool == SumAmount(OnOption(ws, winningOptionId))
        total == SumAmount(OfUser(ws, userName))
        onWinning == SumAmount(OnOption(OfUser(ws, userName), winningOptionId))
        payout == F64MulInt(F64Div(onWinning, winningPool),
                            totalPool - winningPool)
        netWinLoss == F64SubInt(payout, total)
    IN  [userName |-> userName,
         totalWagered |-> total,
         payout |-> MathRound(F64MulInt(payout, 100)),
         netWinLoss |-> MathRound(F64MulInt(netWinLoss, 100))]

PayoutResultOnTotal(ws, winningOptionId, userName) ==
    LET totalPool == SumAmount(ws)
        winningPool == SumAmount(OnOption(ws, winningOptionId))
        total == SumAmount(OfUser(ws, userName))
        onWinning == total
        payout == F64MulInt(F64Div(onWinning, winningPool), totalPool)
        netWinLoss == F64SubInt(payout, total)
    IN  [userName |-> userName,
         totalWagered |-> total,
         payout |-> MathRound(F64MulInt(payout, 100)),
         netWinLoss |-> MathRound(F64MulInt(netWinLoss, 100))]

PayoutResultLastWager(ws, winningOptionId, userName) ==
    LET totalPool == SumAmount(ws)
        winningPool == SumAmount(OnOption(ws, winningOptionId))
        mine == OfUser(ws, userName)
        total == mine[Len(mine)].amount
        onWinning == IF mine[Len(mine)].optionId = winningOptionId
                     THEN mine[Len(mine)].amount ELSE 0
        payout == F64MulInt(F64Div(onWinning, winningPool), totalPool)
        netWinLoss == F64SubInt(payout, total)
    IN  [userName |-> userName,
         totalWagered |-> total,
         payout |-> MathRound(F64MulInt(payout, 100)),
         netWinLoss |-> MathRound(F64MulInt(netWinLoss, 100))]

\* the normal branch: payout = (onWinning / winningPool) * totalPool and
\* netWinLoss = payout - total in doubles, then each of the two rounded on
\* its own by Math.round(x * 100) / 100.  The double Math.round(x * 100) / 100
\* is held as the integer Math.round(x * 100): k / 100 is a different double
\* for each integer k, and the larger the larger k is.
PayoutResult(ws, winningOptionId, userName) ==
    LET totalPool == SumAmount(ws)
        winningPool == SumAmount(OnOption(ws, winningOptionId))
        total == SumAmount(OfUser(ws, userName))
        onWinning == SumAmount(OnOption(OfUser(ws, userName), winningOptionId))
        payout == F64MulInt(F64Div(onWinning, winningPool), totalPool)
        netWinLoss == F64SubInt(payout, total)
    IN  [userName |-> userName,
         totalWagered |-> total,
         payout |-> MathRound(F64MulInt(payout, 100)),
         netWinLoss |-> MathRound(F64MulInt(netWinLoss, 100))]

calculatePayouts(ws, winningOptionId) ==
    IF Len(ws) = 0 THEN <<>>
    ELSE LET winningPool == SumAmount(OnOption(ws, winningOptionId))
             keys == MapKeys(ws, <<>>)
         IN  IF winningPool = 0
             THEN SortByNet([i \in DOMAIN keys |-> LoserResult(ws, keys[i])])
             ELSE SortByNet([i \in DOMAIN keys |->
                                PayoutResult(ws, winningOptionId, keys[i])])

\* ------------------------------------------------------------------- state
VARIABLES
    parties,        \* table parties: row id = index, [status]
    bets,           \* table bets: row id = index,
                    \*   [partyId, createdBy, status, winningOptionId]
    betOptions,     \* table bet_options: row id = index, [betId]
    wagers,         \* table wagers: [betId, optionId, userName, amount]
    settlements,    \* table settlements:
                    \*   [betId, userName, totalWagered, payout, netWinLoss]
    last,           \* the route that answered last and its response:
                    \*   [op, code, error]
    reqs,           \* SpecConc: the requests in flight, one per slot
    started,        \* SpecConc: how many requests have been started
    calcWagers,     \* SpecCalc: the wagers argument of calculatePayouts
    calcWinning,    \* SpecCalc: the winningOptionId argument
    calcResults,    \* SpecCalc: the list calculatePayouts returned for them
    expectedPin     \* process.env.HOST_PIN as the server was started: a
                    \*   string of digits, or <<>> when it is unset or empty

db == <<parties, bets, betOptions, wagers, settlements>>
calcVars == <<calcWagers, calcWinning, calcResults>>
concVars == <<reqs, started>>
vars == <<parties, bets, betOptions, wagers, settlements, last, reqs, started,
          calcWagers, calcWinning, calcResults, expectedPin>>

\* ---------------------------------------------------------------- requests
\* a request body (queryPin: hostPin of the query string); a route reads only
\* its own fields
EmptyBody ==
    [hostPin |-> <<>>, createdBy |-> Undefined, winningOptionId |-> NULL,
     userName |-> Undefined, optionId |-> NULL, amount |-> 0,
     options |-> 0, nameAndDate |-> TRUE, queryPin |-> <<>>]

\* nothing handled yet
NoRequest == [op |-> "none", code |-> 0, error |-> ""]

Resp(code, error) == [code |-> code, error |-> error]

\* the tables as a handler leaves them, with its response
Unchanged(resp) ==
    [parties |-> parties, bets |-> bets, betOptions |-> betOptions,
     wagers |-> wagers, settlements |-> settlements, resp |-> resp]

\* ------------------------------------------------------ validation/schemas.ts
\* z.string().length(4).regex(/^\d{4}$/)
FourDigits(pin) == Len(pin) = 4 /\ \A i \in DOMAIN pin : pin[i] \in 0..9

\* hostPin: ... .optional()
OptionalPin(pin) == pin = <<>> \/ FourDigits(pin)

\* createPartySchema: name, date, hostPin
createPartySchema(body) == body.nameAndDate /\ FourDigits(body.hostPin)

\* createBetSchema: createdBy min(1), options min(2) max(10)
createBetSchema(body) ==
    /\ body.createdBy # Undefined
    /\ body.options >= MinOptions
    /\ body.options <= MaxOptionsAllowed

\* closeBetSchema: hostPin optional
closeBetSchema(body) == OptionalPin(body.hostPin)

\* settleBetSchema: winningOptionId a positive integer, hostPin optional
settleBetSchema(body) == body.winningOptionId > 0 /\ OptionalPin(body.hostPin)

\* createWagerSchema: userName min(1), optionId positive, amount a positive
\* integer of at most 10000
createWagerSchema(body) ==
    /\ body.userName # Undefined
    /\ body.optionId > 0
    /\ body.amount > 0
    /\ body.amount <= MaxAmount

\* ------------------------------------------------------------- routes/parties
\* the middleware has called next(): no response yet
NextHandler == Resp(0, "")

\* verifyHostPin: hostPin = req.body.hostPin || req.query.hostPin;
\* !expectedPin: 500; hostPin !== expectedPin: 401; else next()
verifyHostPin(body) ==
    LET hostPin == IF body.hostPin # <<>> THEN body.hostPin ELSE body.queryPin
    IN  IF expectedPin = <<>>
        THEN Resp(500, "Host PIN not configured. Please set HOST_PIN in environment variables.")
        ELSE IF hostPin # expectedPin THEN Resp(401, "Invalid host PIN")
        ELSE NextHandler

CreatePartyValidatesFirst(body) ==
    IF ~createPartySchema(body) THEN Unchanged(Resp(400, "Validation failed"))
    ELSE IF verifyHostPin(body) # NextHandler THEN Unchanged(verifyHostPin(body))
    ELSE [Unchanged(Resp(201, "")) EXCEPT
            !.parties = Append([i \in DOMAIN parties |-> [status |-> "archived"]],
                               [status |-> "active"])]

CreatePartyNoArchive(body) ==
    IF verifyHostPin(body) # NextHandler THEN Unchanged(verifyHostPin(body))
    ELSE IF ~createPartySchema(body) THEN Unchanged(Resp(400, "Validation failed"))
    ELSE [Unchanged(Resp(201, "")) EXCEPT
            !.parties = Append(parties, [status |-> "active"])]

\* POST /api/parties
CreateParty(body) ==
    IF verifyHostPin(body) # NextHandler THEN Unchanged(verifyHostPin(body))
    ELSE IF ~createPartySchema(body) THEN Unchanged(Resp(400, "Validation failed"))
    ELSE [Unchanged(Resp(201, "")) EXCEPT
            !.parties = Append([i \in DOMAIN parties |-> [status |-> "archived"]],
                               [status |-> "active"])]

\* PATCH /api/parties/:id/archive
ArchiveParty(partyId, body) ==
    IF verifyHostPin(body) # NextHandler THEN Unchanged(verifyHostPin(body))
    ELSE IF partyId \notin DOMAIN parties THEN Unchanged(Resp(404, "Party not found"))
    ELSE IF parties[partyId].status = "archived"
         THEN Unchanged(Resp(400, "Party is already archived"))
    ELSE [Unchanged(Resp(200, "")) EXCEPT
            !.parties = [parties EXCEPT ![partyId].status = "archived"]]

\* ---------------------------------------------------------------- routes/bets
ActiveParties == {i \in DOMAIN parties : parties[i].status = "active"}

\* const [activeParty] = ...: the first row the select returns
FirstActiveParty == CHOOSE i \in ActiveParties : \A j \in ActiveParties : i <= j

\* POST /api/bets
CreateBet(body) ==
    IF ~createBetSchema(body) THEN Unchanged(Resp(400, "Validation failed"))
    ELSE IF ActiveParties = {}
         THEN Unchanged(Resp(400, "No active party. Please create a party first."))
    ELSE [Unchanged(Resp(201, "")) EXCEPT
            !.bets = Append(bets, [partyId |-> FirstActiveParty,
                                   createdBy |-> body.createdBy,
                                   status |-> "open",
                                   winningOptionId |-> NULL]),
            !.betOptions = betOptions \o
                [i \in 1..body.options |-> [betId |-> Len(bets) + 1]]]

OptionOfAnyBet(optionId, betId) == optionId \in DOMAIN betOptions

\* where(and(eq(betOptions.id, optionId), eq(betOptions.betId, betId)))
OptionOfBet(optionId, betId) ==
    optionId \in DOMAIN betOptions /\ betOptions[optionId].betId = betId

PlaceWagerAnyStatus(betId, body) ==
    IF ~createWagerSchema(body) THEN Unchanged(Resp(400, "Validation failed"))
    ELSE IF betId \notin DOMAIN bets THEN Unchanged(Resp(404, "Bet not found"))
    ELSE IF ~OptionOfBet(body.optionId, betId)
         THEN Unchanged(Resp(400, "Invalid option ID for this bet"))
    ELSE [Unchanged(Resp(201, "")) EXCEPT
            !.wagers = Append(wagers, [betId |-> betId,
                                       optionId |-> body.optionId,
                                       userName |-> body.userName,
                                       amount |-> body.amount])]

PlaceWagerAnyOption(betId, body) ==
    IF ~createWagerSchema(body) THEN Unchanged(Resp(400, "Validation failed"))
    ELSE IF betId \notin DOMAIN bets THEN Unchanged(Resp(404, "Bet not found"))
    ELSE IF bets[betId].status # "open"
         THEN Unchanged(Resp(400, IF bets[betId].status = "closed"
                                  THEN "Cannot place wager. Bet is closed."
                                  ELSE "Cannot place wager. Bet is settled."))
    ELSE [Unchanged(Resp(201, "")) EXCEPT
            !.wagers = Append(wagers, [betId |-> betId,
                                       optionId |-> body.optionId,
                                       userName |-> body.userName,
                                       amount |-> body.amount])]

PlaceWagerReplacing(betId, body) ==
    IF ~createWagerSchema(body) THEN Unchanged(Resp(400, "Validation failed"))
    ELSE IF betId \notin DOMAIN bets THEN Unchanged(Resp(404, "Bet not found"))
    ELSE IF bets[betId].status # "open"
         THEN Unchanged(Resp(400, IF bets[betId].status = "closed"
                                  THEN "Cannot place wager. Bet is closed."
                                  ELSE "Cannot place wager. Bet is settled."))
    ELSE IF ~OptionOfBet(body.optionId, betId)
         THEN Unchanged(Resp(400, "Invalid option ID for this bet"))
    ELSE [Unchanged(Resp(201, "")) EXCEPT
            !.wagers = Append(SelectSeq(wagers,
                                  LAMBDA w : ~(w.betId = betId
                                               /\ w.userName = body.userName)),
                              [betId |-> betId,
                               optionId |-> body.optionId,
                               userName |-> body.userName,
                               amount |-> body.amount])]

\* POST /api/bets/:id/wagers
PlaceWager(betId, body) ==
    IF ~createWagerSchema(body) THEN Unchanged(Resp(400, "Validation failed"))
    ELSE IF betId \notin DOMAIN bets THEN Unchanged(Resp(404, "Bet not found"))
    ELSE IF bets[betId].status # "open"
         THEN Unchanged(Resp(400, IF bets[betId].status = "closed"
                                  THEN "Cannot place wager. Bet is closed."
                                  ELSE "Cannot place wager. Bet is settled."))
    ELSE IF ~OptionOfBet(body.optionId, betId)
         THEN Unchanged(Resp(400, "Invalid option ID for this bet"))
    ELSE [Unchanged(Resp(201, "")) EXCEPT
            !.wagers = Append(wagers, [betId |-> betId,
                                       optionId |-> body.optionId,
                                       userName |-> body.userName,
                                       amount |-> body.amount])]

IsHostAnyPin(hostPin) == hostPin # <<>>

\* isHost = hostPin && hostPin === expectedPin
IsHost(hostPin) == hostPin # <<>> /\ hostPin = expectedPin

IsCreatorAnyName(createdBy, bet) == createdBy # Undefined

\* isCreator = req.body.createdBy === bet.createdBy
IsCreator(createdBy, bet) == createdBy = bet.createdBy

CloseBetAnyStatus(betId, body) ==
    IF ~closeBetSchema(body) THEN Unchanged(Resp(400, "Validation failed"))
    ELSE IF betId \notin DOMAIN bets THEN Unchanged(Resp(404, "Bet not found"))
    ELSE IF ~IsHost(body.hostPin) /\ ~IsCreator(body.createdBy, bets[betId])
         THEN Unchanged(Resp(403, "Unauthorized. Only the host or bet creator can close this bet."))
    ELSE [Unchanged(Resp(200, "")) EXCEPT
            !.bets = [bets EXCEPT ![betId].status = "closed"]]

CloseBetAuthFirst(betId, body) ==
    IF ~closeBetSchema(body) THEN Unchanged(Resp(400, "Validation failed"))
    ELSE IF betId \notin DOMAIN bets THEN Unchanged(Resp(404, "Bet not found"))
    ELSE IF ~IsHost(body.hostPin) /\ ~IsCreator(body.createdBy, bets[betId])
         THEN Unchanged(Resp(403, "Unauthorized. Only the host or bet creator can close this bet."))
    ELSE IF bets[betId].status # "open"
         THEN Unchanged(Resp(400, IF bets[betId].status = "closed"
                                  THEN "Cannot close bet. Current status: closed"
                                  ELSE "Cannot close bet. Current status: settled"))
    ELSE [Unchanged(Resp(200, "")) EXCEPT
            !.bets = [bets EXCEPT ![betId].status = "closed"]]

\* POST /api/bets/:id/close
CloseBet(betId, body) ==
    IF ~closeBetSchema(body) THEN Unchanged(Resp(400, "Validation failed"))
    ELSE IF betId \notin DOMAIN bets THEN Unchanged(Resp(404, "Bet not found"))
    ELSE IF bets[betId].status # "open"
         THEN Unchanged(Resp(400, IF bets[betId].status = "closed"
                                  THEN "Cannot close bet. Current status: closed"
                                  ELSE "Cannot close bet. Current status: settled"))
    ELSE IF ~IsHost(body.hostPin) /\ ~IsCreator(body.createdBy, bets[betId])
         THEN Unchanged(Resp(403, "Unauthorized. Only the host or bet creator can close this bet."))
    ELSE [Unchanged(Resp(200, "")) EXCEPT
            !.bets = [bets EXCEPT ![betId].status = "closed"]]

\* where(eq(wagers.betId, betId))
WagersOfBet(betId) == SelectSeq(wagers, LAMBDA w : w.betId = betId)

\* payoutResults.map(result => ({ betId, ... })): the rows settle inserts
SettlementRows(betId, payoutResults) ==
    [i \in DOMAIN payoutResults |->
        [betId |-> betId,
         userName |-> payoutResults[i].userName,
         totalWagered |-> payoutResults[i].totalWagered,
         payout |-> payoutResults[i].payout,
         netWinLoss |-> payoutResults[i].netWinLoss]]

SettleCheckedStatusOnly(betId, body) ==
    IF ~OptionOfBet(body.winningOptionId, betId)
    THEN Unchanged(Resp(400, "Invalid winning option ID for this bet"))
    ELSE IF ~IsHost(body.hostPin) /\ ~IsCreator(body.createdBy, bets[betId])
    THEN Unchanged(Resp(403, "Unauthorized. Only the host or bet creator can settle this bet."))
    ELSE LET payoutResults ==
                 calculatePayouts(WagersOfBet(betId), body.winningOptionId)
         IN  [Unchanged(Resp(200, "")) EXCEPT
                !.settlements = settlements \o SettlementRows(betId, payoutResults),
                !.bets = [bets EXCEPT ![betId].status = "settled"]]

\* the steps of settle behind the two status checks
SettleChecked(betId, body) ==
    IF ~OptionOfBet(body.winningOptionId, betId)
    THEN Unchanged(Resp(400, "Invalid winning option ID for this bet"))
    ELSE IF ~IsHost(body.hostPin) /\ ~IsCreator(body.createdBy, bets[betId])
    THEN Unchanged(Resp(403, "Unauthorized. Only the host or bet creator can settle this bet."))
    ELSE LET payoutResults ==
                 calculatePayouts(WagersOfBet(betId), body.winningOptionId)
         IN  [Unchanged(Resp(200, "")) EXCEPT
                !.settlements = settlements \o SettlementRows(betId, payoutResults),
                !.bets = [bets EXCEPT ![betId].status = "settled",
                                      ![betId].winningOptionId = body.winningOptionId]]

SettleBetNoSettledCheck(betId, body) ==
    IF ~settleBetSchema(body) THEN Unchanged(Resp(400, "Validation failed"))
    ELSE IF betId \notin DOMAIN bets THEN Unchanged(Resp(404, "Bet not found"))
    ELSE IF bets[betId].status = "open"
         THEN Unchanged(Resp(400, "Bet must be closed before settling. Please close the bet first."))
    ELSE SettleChecked(betId, body)

SettleBetNoOpenCheck(betId, body) ==
    IF ~settleBetSchema(body) THEN Unchanged(Resp(400, "Validation failed"))
    ELSE IF betId \notin DOMAIN bets THEN Unchanged(Resp(404, "Bet not found"))
    ELSE IF bets[betId].status = "settled"
         THEN Unchanged(Resp(400, "Bet is already settled"))
    ELSE SettleChecked(betId, body)

\* POST /api/bets/:id/settle
SettleBet(betId, body) ==
    IF ~settleBetSchema(body) THEN Unchanged(Resp(400, "Validation failed"))
    ELSE IF betId \notin DOMAIN bets THEN Unchanged(Resp(404, "Bet not found"))
    ELSE IF bets[betId].status = "settled"
         THEN Unchanged(Resp(400, "Bet is already settled"))
    ELSE IF bets[betId].status = "open"
         THEN Unchanged(Resp(400, "Bet must be closed before settling. Please close the bet first."))
    ELSE SettleChecked(betId, body)

\* -------------------------------------------------------------------- Spec
\* requests arrive one at a time and each handler runs to its response
Init ==
    /\ parties = <<>>
    /\ bets = <<>>
    /\ betOptions = <<>>
    /\ wagers = <<>>
    /\ settlements = <<>>
    /\ last = NoRequest
    /\ reqs = <<>>
    /\ started = 0
    /\ calcWagers = <<>>
    /\ calcWinning = 1
    /\ calcResults = <<>>
    /\ expectedPin = HOST_PIN

\* the tables after a handler, and its response on record
Handled(op, r) ==
    /\ parties' = r.parties
    /\ bets' = r.bets
    /\ betOptions' = r.betOptions
    /\ wagers' = r.wagers
    /\ settlements' = r.settlements
    /\ last' = [op |-> op, code |-> r.resp.code, error |-> r.resp.error]
    /\ UNCHANGED <<concVars, calcVars, expectedPin>>

\* ids a request may name: the rows there are, and one there is not
PartyIdInputs == 1..(Len(parties) + 1)
BetIdInputs == 1..(Len(bets) + 1)
OptionIdInputs == 1..(Len(betOptions) + 1)

\* the bodies a request of each route may carry
PartyBodies ==
    {[EmptyBody EXCEPT !.hostPin = hostPin, !.nameAndDate = nameAndDate] :
        hostPin \in PinInputs, nameAndDate \in BOOLEAN}

ArchiveBodies == {[EmptyBody EXCEPT !.hostPin = hostPin] : hostPin \in PinInputs}

BetBodies ==
    {[EmptyBody EXCEPT !.createdBy = createdBy, !.options = options] :
        createdBy \in CreatorInputs, options \in 1..MaxOptions}

WagerBodies ==
    {[EmptyBody EXCEPT !.userName = userName, !.optionId = optionId,
                       !.amount = amount] :
        userName \in Users, optionId \in OptionIdInputs, amount \in AmountInputs}

CloseBodies ==
    {[EmptyBody EXCEPT !.hostPin = hostPin, !.createdBy = createdBy] :
        hostPin \in PinInputs, createdBy \in CreatorInputs}

SettleBodies ==
    {[EmptyBody EXCEPT !.hostPin = hostPin, !.createdBy = createdBy,
                       !.winningOptionId = winningOptionId] :
        hostPin \in PinInputs, createdBy \in CreatorInputs,
        winningOptionId \in {NULL} \cup OptionIdInputs}

CreatePartyReq ==
    /\ Len(parties) < MaxParties
    /\ \E body \in PartyBodies : Handled("createParty", CreateParty(body))

ArchivePartyReq ==
    \E partyId \in PartyIdInputs, body \in ArchiveBodies :
        Handled("archiveParty", ArchiveParty(partyId, body))

CreateBetReq ==
    /\ Len(bets) < MaxBets
    /\ \E body \in BetBodies : Handled("createBet", CreateBet(body))

PlaceWagerReq ==
    /\ Len(wagers) < MaxWagers
    /\ \E betId \in BetIdInputs, body \in WagerBodies :
          Handled("wager", PlaceWager(betId, body))

CloseBetReq ==
    \E betId \in BetIdInputs, body \in CloseBodies :
        Handled("close", CloseBet(betId, body))

SettleBetReq ==
    \E betId \in BetIdInputs, body \in SettleBodies :
        Handled("settle", SettleBet(betId, body))

\* Archiving writes parties.status alone, which among the bet routes only
\* POST /api/bets reads; the party requests are taken without it here.
Next ==
    \/ CreatePartyReq
    \/ CreateBetReq
    \/ PlaceWagerReq
    \/ CloseBetReq
    \/ SettleBetReq

Spec == Init /\ [][Next]_vars

\* ------------------------------------------------------ lifecycle claims
\* the rows of table settlements for one bet and one user
RowsOf(rows, betId, userName) ==
    {i \in DOMAIN rows : rows[i].betId = betId /\ rows[i].userName = userName}

HasWager(betId, userName) ==
    \E i \in DOMAIN wagers : wagers[i].betId = betId /\ wagers[i].userName = userName

\* a handler left every table as it was
TablesUnchanged(r) ==
    /\ r.parties = parties
    /\ r.bets = bets
    /\ r.betOptions = betOptions
    /\ r.wagers = wagers
    /\ r.settlements = settlements

\* the caller is the host or the creator of the bet
Authorized(body, betId) ==
    body.hostPin = HOST_PIN \/ body.createdBy = bets[betId].createdBy

\* a hostPin the schemas accept: absent, or four characters
PinWellFormed(body) == body.hostPin = <<>> \/ Len(body.hostPin) = 4

ValidationFailed == Resp(400, "Validation failed")

\* C2: whatever the requests, a bet's status only ever stays, or goes from
\* open to closed, or from closed to settled.
C2_StatusOnlyForward ==
    [][\A b \in DOMAIN bets :
          /\ b \in DOMAIN bets'
          /\ \/ bets'[b].status = bets[b].status
             \/ bets[b].status = "open" /\ bets'[b].status = "closed"
             \/ bets[b].status = "closed" /\ bets'[b].status = "settled"]_vars

\* a close request on a settled bet has been answered with the state error
C2_Witness ==
    /\ last.error = "Cannot close bet. Current status: settled"
    /\ \E b \in DOMAIN bets : bets[b].status = "settled"

\* C3: with the database steps of concurrent settle requests interleaved, no
\* user has more than one settlement record for a bet.
C3_AtMostOneRecordPerUser ==
    \A b \in DOMAIN bets, u \in Users :
        Cardinality(RowsOf(settlements, b, u)) <= 1

\* C4 as stated: every settle request on a settled bet, whatever its body,
\* gets the 'already settled' error and changes neither the bets nor the
\* settlement records.
C4_AlwaysAlreadySettled ==
    \A betId \in DOMAIN bets, body \in SettleBodies :
        bets[betId].status = "settled"
            => LET r == SettleBet(betId, body)
               IN  /\ r.resp = Resp(400, "Bet is already settled")
                   /\ r.bets = bets
                   /\ r.settlements = settlements

\* C4 amended: a settle request on a settled bet is rejected and changes no
\* table; the error is 'already settled' whatever the credentials and the
\* winning option, if the body passes the schema (winningOptionId positive,
\* hostPin absent or four digits), and 'Validation failed' if it does not.
C4_SettledRejectsSettle ==
    \A betId \in DOMAIN bets, body \in SettleBodies :
        bets[betId].status = "settled"
            => LET r == SettleBet(betId, body)
               IN  /\ r.resp = IF body.winningOptionId > 0 /\ PinWellFormed(body)
                               THEN Resp(400, "Bet is already settled")
                               ELSE ValidationFailed
                   /\ TablesUnchanged(r)

\* a settle request on a settled bet with records has just been refused
C4_Witness ==
    /\ last.op = "settle"
    /\ last.error = "Bet is already settled"
    /\ \E b \in DOMAIN bets :
          /\ bets[b].status = "settled"
          /\ \E i \in DOMAIN settlements : settlements[i].betId = b

\* C5 as stated: every settle request on an open bet gets the 'must be
\* closed' state error and changes nothing.
C5_AlwaysMustBeClosed ==
    \A betId \in DOMAIN bets, body \in SettleBodies :
        bets[betId].status = "open"
            => LET r == SettleBet(betId, body)
               IN  /\ r.resp = Resp(400, "Bet must be closed before settling. Please close the bet first.")
                   /\ r.bets = bets
                   /\ r.settlements = settlements

\* a settle request on an open bet is refused, with 'must be closed' if its
\* body passes the schema and with 'Validation failed' if not; no table changes
OpenRejectsSettle ==
    \A betId \in DOMAIN bets, body \in SettleBodies :
        bets[betId].status = "open"
            => LET r == SettleBet(betId, body)
               IN  /\ r.resp = IF body.winningOptionId > 0 /\ PinWellFormed(body)
                               THEN Resp(400, "Bet must be closed before settling. Please close the bet first.")
                               ELSE ValidationFailed
                   /\ TablesUnchanged(r)

\* the bet b is not settled after any request of any route
NoRequestSettles(b) ==
    /\ \A body \in PartyBodies : CreateParty(body).bets[b].status # "settled"
    /\ \A body \in BetBodies : CreateBet(body).bets[b].status # "settled"
    /\ \A betId \in BetIdInputs, body \in WagerBodies :
          PlaceWager(betId, body).bets[b].status # "settled"
    /\ \A betId \in BetIdInputs, body \in CloseBodies :
          CloseBet(betId, body).bets[b].status # "settled"
    /\ \A betId \in BetIdInputs, body \in SettleBodies :
          SettleBet(betId, body).bets[b].status # "settled"

\* C5 amended: a settle request on an open bet is rejected (with the 'must be
\* closed' state error when its body passes the schema, with 'Validation
\* failed' when not), creates no settlement record and leaves the status
\* open; and no request of any route takes an open bet to settled.
C5_OpenNeverSettled ==
    /\ OpenRejectsSettle
    /\ \A b \in DOMAIN bets : bets[b].status = "open" => NoRequestSettles(b)

\* a settle request on an open bet has just been refused with the state error
C5_Witness ==
    /\ last.op = "settle"
    /\ last.error = "Bet must be closed before settling. Please close the bet first."
    /\ \E b \in DOMAIN bets : bets[b].status = "open"
    /\ settlements = <<>>

\* C6 as stated: a close request closes an open bet only for the host's PIN
\* or the creator's name, and every other caller gets 403 and the bet stays
\* open.
C6_UnauthorizedAlways403 ==
    \A betId \in DOMAIN bets, body \in CloseBodies :
        bets[betId].status = "open"
            => LET r == CloseBet(betId, body)
               IN  /\ r.bets[betId].status = "closed" => Authorized(body, betId)
                   /\ ~Authorized(body, betId)
                         => r.resp.code = 403 /\ r.bets = bets

\* C6 amended: a close request closes an open bet only for the host's PIN or
\* the creator's name; every other caller leaves the bet open and gets the
\* authorization error 403, or, when the supplied PIN is not four digits,
\* the validation error 400 'Validation failed'.
C6_CloseNeedsHostOrCreator ==
    \A betId \in DOMAIN bets, body \in CloseBodies :
        bets[betId].status = "open"
            => LET r == CloseBet(betId, body)
               IN  /\ r.bets[betId].status = "closed" => Authorized(body, betId)
                   /\ ~Authorized(body, betId)
                         => /\ TablesUnchanged(r)
                            /\ IF PinWellFormed(body)
                               THEN r.resp.code = 403
                               ELSE r.resp = ValidationFailed

\* a close request on an open bet has just been refused with 403
C6_Witness ==
    /\ last.op = "close"
    /\ last.code = 403
    /\ \E b \in DOMAIN bets : bets[b].status = "open"

\* C7: a settle request of a caller who is neither the host nor the creator
\* changes nothing: status, winning option and settlement records stay.
C7_UnauthorizedNeverSettles ==
    \A betId \in DOMAIN bets, body \in SettleBodies :
        ~Authorized(body, betId)
            => LET r == SettleBet(betId, body)
               IN  /\ r.bets = bets
                   /\ r.settlements = settlements
                   /\ r.resp.code # 200

\* a settle request on a closed bet with wagers has just been refused with
\* 403; the bet is closed, without winning option and without records
C7_Witness ==
    /\ last.op = "settle"
    /\ last.code = 403
    /\ \E b \in DOMAIN bets :
          /\ bets[b].status = "closed"
          /\ bets[b].winningOptionId = NULL
          /\ \E i \in DOMAIN wagers : wagers[i].betId = b
          /\ \A i \in DOMAIN settlements : settlements[i].betId # b

\* C8: a winning option that is set is an option of the same bet, and a
\* settle request naming an option that does not exist or is another bet's
\* is refused and changes no table.
C8_WinningOptionOfOwnBet ==
    /\ \A b \in DOMAIN bets :
          bets[b].winningOptionId # NULL
              => /\ bets[b].winningOptionId \in DOMAIN betOptions
                 /\ betOptions[bets[b].winningOptionId].betId = b
    /\ \A betId \in DOMAIN bets, body \in SettleBodies :
          ~(/\ body.winningOptionId \in DOMAIN betOptions
            /\ betOptions[body.winningOptionId].betId = betId)
              => LET r == SettleBet(betId, body)
                 IN  r.resp.code = 400 /\ TablesUnchanged(r)

\* with two bets, one of them closed, a settle request has just been refused
\* for its winning option
C8_Witness ==
    /\ last.op = "settle"
    /\ last.error = "Invalid winning option ID for this bet"
    /\ Len(bets) = 2
    /\ \E b \in DOMAIN bets : bets[b].status = "closed"

\* C9: a settle request that succeeds is on a closed bet; it leaves the bet
\* settled with the supplied winning option and adds exactly one settlement
\* record for each user with a wager on the bet and none for anyone else
\* (none at all without wagers); every settled bet has those records.
C9_OneRecordPerUser ==
    /\ \A betId \in DOMAIN bets, body \in SettleBodies :
          LET r == SettleBet(betId, body)
          IN  r.resp.code = 200
                  => /\ bets[betId].status = "closed"
                     /\ r.bets[betId].status = "settled"
                     /\ r.bets[betId].winningOptionId = body.winningOptionId
                     /\ SubSeq(r.settlements, 1, Len(settlements)) = settlements
                     /\ \A i \in DOMAIN r.settlements :
                           i > Len(settlements) => r.settlements[i].betId = betId
                     /\ \A u \in Users :
                           Cardinality(RowsOf(r.settlements, betId, u))
                               = IF HasWager(betId, u) THEN 1 ELSE 0
    /\ \A b \in DOMAIN bets, u \in Users :
          bets[b].status = "settled"
              => Cardinality(RowsOf(settlements, b, u))
                     = IF HasWager(b, u) THEN 1 ELSE 0

\* a settle request has just succeeded on a bet with wagers of two users
C9_Witness ==
    /\ last.op = "settle"
    /\ last.code = 200
    /\ \E b \in DOMAIN bets :
          /\ bets[b].status = "settled"
          /\ bets[b].winningOptionId # NULL
          /\ \A u \in Users : Cardinality(RowsOf(settlements, b, u)) = 1

\* ---------------------------------------------------------------- SpecConc
\* The handlers are async functions: between two awaited database calls of
\* one request the calls of another may run.  A step is one database call
\* with the synchronous code that follows it up to the next call.
NoBet == [partyId |-> NULL, createdBy |-> Undefined, status |-> "none",
          winningOptionId |-> NULL]

\* a free slot
IdleReq == [op |-> "none", pc |-> "idle", betId |-> NULL, body |-> EmptyBody,
            bet |-> NoBet, payoutResults |-> <<>>]

Slots == 1..MaxInflight

\* the bodies of the concurrent requests: the host's PIN or another one
ConcPins == {HOST_PIN, <<9, 9, 9, 9>>}

ConcWagerBodies ==
    {[EmptyBody EXCEPT !.userName = userName, !.optionId = optionId,
                       !.amount = 1] :
        userName \in Users, optionId \in DOMAIN betOptions}

ConcCloseBodies == {[EmptyBody EXCEPT !.hostPin = hostPin] : hostPin \in ConcPins}

ConcSettleBodies ==
    {[EmptyBody EXCEPT !.hostPin = hostPin, !.winningOptionId = winningOptionId] :
        hostPin \in ConcPins, winningOptionId \in DOMAIN betOptions}

\* a party and one open bet of Alice's with two options: the tables after a
\* createParty and a createBet request
ConcInit ==
    /\ parties = <<[status |-> "active"]>>
    /\ bets = <<[partyId |-> 1, createdBy |-> "Alice", status |-> "open",
                 winningOptionId |-> NULL]>>
    /\ betOptions = <<[betId |-> 1], [betId |-> 1]>>
    /\ wagers = <<>>
    /\ settlements = <<>>
    /\ last = [op |-> "createBet", code |-> 201, error |-> ""]
    /\ reqs = [s \in Slots |-> IdleReq]
    /\ started = 0
    /\ calcWagers = <<>>
    /\ calcWinning = 1
    /\ calcResults = <<>>
    /\ expectedPin = HOST_PIN

\* the request of slot s answers and the slot is free again
Finish(s, resp) ==
    /\ reqs' = [reqs EXCEPT ![s] = IdleReq]
    /\ last' = [op |-> reqs[s].op, code |-> resp.code, error |-> resp.error]

\* the request of slot s goes on to its next database call
Goto(s, pc) == reqs' = [reqs EXCEPT ![s].pc = pc] /\ last' = last

\* a request arrives; its body is validated before the first database call
ConcStart(s) ==
    /\ reqs[s].pc = "idle"
    /\ started < MaxRequests
    /\ \E op \in {"wager", "close", "settle"}, betId \in DOMAIN bets :
          \E body \in (IF op = "wager" THEN ConcWagerBodies
                       ELSE IF op = "close" THEN ConcCloseBodies
                       ELSE ConcSettleBodies) :
             /\ IF op = "wager" THEN createWagerSchema(body)
                ELSE IF op = "close" THEN closeBetSchema(body)
                ELSE settleBetSchema(body)
             /\ reqs' = [reqs EXCEPT ![s] = [IdleReq EXCEPT !.op = op,
                                                            !.pc = "readBet",
                                                            !.betId = betId,
                                                            !.body = body]]
    /\ started' = started + 1
    /\ UNCHANGED <<db, last, calcVars, expectedPin>>

\* db.select().from(bets).where(eq(bets.id, betId)), and the checks on it
ConcReadBet(s) ==
    LET r == reqs[s]
        bet == bets[r.betId]
    IN  /\ r.pc = "readBet"
        /\ IF r.betId \notin DOMAIN bets
           THEN Finish(s, Resp(404, "Bet not found"))
           ELSE IF r.op = "wager"
           THEN IF bet.status # "open"
                THEN Finish(s, Resp(400, IF bet.status = "closed"
                                         THEN "Cannot place wager. Bet is closed."
                                         ELSE "Cannot place wager. Bet is settled."))
                ELSE reqs' = [reqs EXCEPT ![s].pc = "readOption", ![s].bet = bet]
                     /\ last' = last
           ELSE IF r.op = "close"
           THEN IF bet.status # "open"
                THEN Finish(s, Resp(400, IF bet.status = "closed"
                                         THEN "Cannot close bet. Current status: closed"
                                         ELSE "Cannot close bet. Current status: settled"))
                ELSE IF ~IsHost(r.body.hostPin) /\ ~IsCreator(r.body.createdBy, bet)
                THEN Finish(s, Resp(403, "Unauthorized. Only the host or bet creator can close this bet."))
                ELSE reqs' = [reqs EXCEPT ![s].pc = "updateBet", ![s].bet = bet]
                     /\ last' = last
           ELSE IF bet.status = "settled"
                THEN Finish(s, Resp(400, "Bet is already settled"))
                ELSE IF bet.status = "open"
                THEN Finish(s, Resp(400, "Bet must be closed before settling. Please close the bet first."))
                ELSE reqs' = [reqs EXCEPT ![s].pc = "readOption", ![s].bet = bet]
                     /\ last' = last
        /\ UNCHANGED <<db, started, calcVars, expectedPin>>

\* db.select().from(betOptions).where(and(...)), and the checks after it
ConcReadOption(s) ==
    LET r == reqs[s]
    IN  /\ r.pc = "readOption"
        /\ IF r.op = "wager"
           THEN IF ~OptionOfBet(r.body.optionId, r.betId)
                THEN Finish(s, Resp(400, "Invalid option ID for this bet"))
                ELSE Goto(s, "insertWager")
           ELSE IF ~OptionOfBet(r.body.winningOptionId, r.betId)
                THEN Finish(s, Resp(400, "Invalid winning option ID for this bet"))
                ELSE IF ~IsHost(r.body.hostPin) /\ ~IsCreator(r.body.createdBy, r.bet)
                THEN Finish(s, Resp(403, "Unauthorized. Only the host or bet creator can settle this bet."))
                ELSE Goto(s, "readWagers")
        /\ UNCHANGED <<db, started, calcVars, expectedPin>>

\* db.insert(wagers).values(...)
ConcInsertWager(s) ==
    LET r == reqs[s]
    IN  /\ r.pc = "insertWager"
        /\ wagers' = Append(wagers, [betId |-> r.betId,
                                     optionId |-> r.body.optionId,
                                     userName |-> r.body.userName,
                                     amount |-> r.body.amount])
        /\ Finish(s, Resp(201, ""))
        /\ UNCHANGED <<parties, bets, betOptions, settlements, started, calcVars, expectedPin>>

\* db.select().from(wagers).where(eq(wagers.betId, betId)), then
\* calculatePayouts; an empty result skips the insert
ConcReadWagers(s) ==
    LET r == reqs[s]
        payoutResults == calculatePayouts(WagersOfBet(r.betId), r.body.winningOptionId)
    IN  /\ r.pc = "readWagers"
        /\ reqs' = [reqs EXCEPT ![s].payoutResults = payoutResults,
                                ![s].pc = IF Len(payoutResults) > 0
                                          THEN "insertSettlements"
                                          ELSE "updateBet"]
        /\ UNCHANGED <<db, last, started, calcVars, expectedPin>>

\* db.insert(settlements).values(...)
ConcInsertSettlements(s) ==
    LET r == reqs[s]
    IN  /\ r.pc = "insertSettlements"
        /\ settlements' = settlements \o SettlementRows(r.betId, r.payoutResults)
        /\ Goto(s, "updateBet")
        /\ UNCHANGED <<parties, bets, betOptions, wagers, started, calcVars, expectedPin>>

\* db.update(bets).set(...).where(eq(bets.id, betId)), and the response
ConcUpdateBet(s) ==
    LET r == reqs[s]
    IN  /\ r.pc = "updateBet"
        /\ bets' = IF r.op = "close"
                   THEN [bets EXCEPT ![r.betId].status = "closed"]
                   ELSE [bets EXCEPT ![r.betId].status = "settled",
                                     ![r.betId].winningOptionId = r.body.winningOptionId]
        /\ Finish(s, Resp(200, ""))
        /\ UNCHANGED <<parties, betOptions, wagers, settlements, started, calcVars, expectedPin>>

ConcNext ==
    \E s \in Slots :
        \/ ConcStart(s)
        \/ ConcReadBet(s)
        \/ ConcReadOption(s)
        \/ ConcInsertWager(s)
        \/ ConcReadWagers(s)
        \/ ConcInsertSettlements(s)
        \/ ConcUpdateBet(s)

SpecConc == ConcInit /\ [][ConcNext]_vars

\* ---------------------------------------------------------------- SpecCalc
\* calculatePayouts reads a user name only to compare it with other names,
\* so every wager list is a renaming of one whose names first appear in the
\* order of CalcUsers; only those are drawn.
NamesUsed(ws) == {ws[i].userName : i \in DOMAIN ws}

NextNames(ws) ==
    LET used == Cardinality(NamesUsed(ws))
    IN  {CalcUsers[i] : i \in 1..(IF used < Len(CalcUsers) THEN used + 1 ELSE used)}

CalcInit ==
    /\ parties = <<>>
    /\ bets = <<>>
    /\ betOptions = <<>>
    /\ wagers = <<>>
    /\ settlements = <<>>
    /\ last = NoRequest
    /\ reqs = <<>>
    /\ started = 0
    /\ calcWagers = <<>>
    /\ calcWinning \in CalcWinningInputs
    /\ calcResults = calculatePayouts(<<>>, calcWinning)
    /\ expectedPin = HOST_PIN

\* one more wager in the list, and calculatePayouts applied to the new list
CalcAddWager ==
    /\ Len(calcWagers) < MaxCalcWagers
    /\ \E userName \in NextNames(calcWagers), optionId \in CalcOptionIds,
          amount \in CalcAmounts :
          calcWagers' = Append(calcWagers, [userName |-> userName,
                                            optionId |-> optionId,
                                            amount |-> amount])
    /\ calcWinning' = calcWinning
    /\ calcResults' = calculatePayouts(calcWagers', calcWinning')
    /\ UNCHANGED <<db, last, concVars, expectedPin>>

CalcNext == CalcAddWager

SpecCalc == CalcInit /\ [][CalcNext]_vars

\* ---------------------------------------------------------------- SpecWide
\* calculatePayouts on short wager lists with amounts whose quotients are not
\* binary fractions
WideAddWager ==
    /\ Len(calcWagers) < MaxWideWagers
    /\ \E userName \in NextNames(calcWagers), optionId \in CalcOptionIds,
          amount \in WideAmounts :
          calcWagers' = Append(calcWagers, [userName |-> userName,
                                            optionId |-> optionId,
                                            amount |-> amount])
    /\ calcWinning' = calcWinning
    /\ calcResults' = calculatePayouts(calcWagers', calcWinning')
    /\ UNCHANGED <<db, last, concVars, expectedPin>>

WideNext == WideAddWager

SpecWide == CalcInit /\ [][WideNext]_vars

\* ------------------------------------------------------------- SpecExample
\* the example calculation of the calculator's test suite: option 1 is
\* Chiefs, option 2 is Eagles; the four wagers arrive in any order
ExampleWagers ==
    <<[userName |-> "Alice", optionId |-> 1, amount |-> 10],
      [userName |-> "Alice", optionId |-> 2, amount |-> 5],
      [userName |-> "Bob", optionId |-> 1, amount |-> 20],
      [userName |-> "Carol", optionId |-> 2, amount |-> 15]>>

ExampleAddWager ==
    /\ \E i \in DOMAIN ExampleWagers :
          /\ \A j \in DOMAIN calcWagers : calcWagers[j] # ExampleWagers[i]
          /\ calcWagers' = Append(calcWagers, ExampleWagers[i])
    /\ calcWinning' = calcWinning
    /\ calcResults' = calculatePayouts(calcWagers', calcWinning')
    /\ UNCHANGED <<db, last, concVars, expectedPin>>

ExampleNext == ExampleAddWager

SpecExample == CalcInit /\ [][ExampleNext]_vars

\* ------------------------------------------------- claims on the calculator
RECURSIVE SumPayout(_)
SumPayout(rs) == IF rs = <<>> THEN 0 ELSE Head(rs).payout + SumPayout(Tail(rs))

Abs(x) == IF x < 0 THEN 0 - x ELSE x

CalcTotalPool == SumAmount(calcWagers)
CalcWinningPool == SumAmount(OnOption(calcWagers, calcWinning))
\* the users holding a wager on the winning option
CalcWinners == NamesUsed(OnOption(calcWagers, calcWinning))

\* C1 as stated: with winningPool > 0 the payouts returned by
\* calculatePayouts sum to totalPool within 0.01 (one cent).
C1_SumWithinOneCent ==
    CalcWinningPool > 0
        => Abs(SumPayout(calcResults) - 100 * CalcTotalPool) <= 1

\* C1 amended: with winningPool > 0 the payouts returned by calculatePayouts
\* sum to totalPool within 0.005 for each user holding a wager on the winning
\* option (half a cent of rounding per such user; every other payout is 0).
C1_SumWithinHalfCentPerWinner ==
    CalcWinningPool > 0
        => 2 * Abs(SumPayout(calcResults) - 100 * CalcTotalPool)
               <= Cardinality(CalcWinners)

\* four users on the winning option, each payout rounded up from a half cent
C1_Witness ==
    /\ CalcWinningPool > 0
    /\ Cardinality(CalcWinners) = 4
    /\ SumPayout(calcResults) - 100 * CalcTotalPool = 2

\* C10: every result of calculatePayouts has netWinLoss = payout - totalWagered
\* on the rounded values (in cents: netWinLoss = payout - 100 * totalWagered).
C10_NetIsPayoutMinusWagered ==
    \A i \in DOMAIN calcResults :
        calcResults[i].netWinLoss
            = calcResults[i].payout - 100 * calcResults[i].totalWagered

\* n / d in cents, rounded half up in exact arithmetic (d > 0)
RoundCents(n, d) == (200 * n + d) \div (2 * d)

RECURSIVE AmountOver(_)
\* the sum of the amounts of the wagers of calcWagers at the positions in I
AmountOver(I) ==
    IF I = {} THEN 0
    ELSE LET i == CHOOSE k \in I : TRUE
         IN  calcWagers[i].amount + AmountOver(I \ {i})

\* what a user staked on every option, and on the winning option only
StakedBy(userName) ==
    AmountOver({i \in DOMAIN calcWagers : calcWagers[i].userName = userName})
StakedOnWinningBy(userName) ==
    AmountOver({i \in DOMAIN calcWagers :
                   /\ calcWagers[i].userName = userName
                   /\ calcWagers[i].optionId = calcWinning})
PoolOfAll == AmountOver(DOMAIN calcWagers)
PoolOnWinning ==
    AmountOver({i \in DOMAIN calcWagers : calcWagers[i].optionId = calcWinning})

\* the results name every user with a wager, each once
OneResultPerUser ==
    /\ Len(calcResults) = Cardinality(NamesUsed(calcWagers))
    /\ {calcResults[i].userName : i \in DOMAIN calcResults} = NamesUsed(calcWagers)

\* C11: with winningPool > 0 each user's payout is
\* (amount on the winning option / winningPool) x totalPool rounded half up
\* to two decimals.
C11_PayoutRoundedHalfUp ==
    PoolOnWinning > 0
        => \A i \in DOMAIN calcResults :
              calcResults[i].payout
                  = RoundCents(StakedOnWinningBy(calcResults[i].userName)
                                   * PoolOfAll,
                               PoolOnWinning)

\* C12: with no wager on the winning option there is one result per distinct
\* user, every payout is 0 and netWinLoss = -totalWagered.
C12_NoWinnerEveryoneLoses ==
    (calcWagers # <<>> /\ PoolOnWinning = 0)
        => /\ OneResultPerUser
           /\ \A i \in DOMAIN calcResults :
                 /\ calcResults[i].payout = 0
                 /\ calcResults[i].totalWagered = StakedBy(calcResults[i].userName)
                 /\ calcResults[i].netWinLoss
                        = 0 - 100 * calcResults[i].totalWagered

\* the winning option is on no wager; one user holds two of three wagers
C12_Witness ==
    /\ calcWinning \notin {calcWagers[i].optionId : i \in DOMAIN calcWagers}
    /\ Len(calcWagers) = 3
    /\ Len(calcResults) = 2
    /\ \E i \in DOMAIN calcResults : calcResults[i].netWinLoss = 0 - 600

\* C13: if every wager is on the winning option, every user's netWinLoss is 0
\* and payout equals totalWagered.
C13_AllOnWinnerBreakEven ==
    (\A i \in DOMAIN calcWagers : calcWagers[i].optionId = calcWinning)
        => \A i \in DOMAIN calcResults :
              /\ calcResults[i].netWinLoss = 0
              /\ calcResults[i].totalWagered = StakedBy(calcResults[i].userName)
              /\ calcResults[i].payout = 100 * calcResults[i].totalWagered

\* three users, all on the winning option, shares 1/7, 1/7 and 5/7
C13_Witness ==
    /\ \A i \in DOMAIN calcWagers : calcWagers[i].optionId = calcWinning
    /\ Len(calcResults) = 3
    /\ PoolOnWinning = 7
    /\ \E i \in DOMAIN calcResults : calcResults[i].payout = 500

\* C14: totalWagered of a user is the sum of all that user's wagers, and the
\* payout is computed from the sum of that user's wagers on the winning
\* option only: Math.round(((onWinning / winningPool) * totalPool) * 100).
C14_HedgingSums ==
    \A i \in DOMAIN calcResults :
        /\ calcResults[i].totalWagered = StakedBy(calcResults[i].userName)
        /\ PoolOnWinning > 0
              => calcResults[i].payout
                     = MathRound(F64MulInt(
                           F64MulInt(F64Div(StakedOnWinningBy(
                                                calcResults[i].userName),
                                            PoolOnWinning),
                                     PoolOfAll),
                           100))

\* a user with two wagers on the winning option and one on another option,
\* next to another winner
C14_Witness ==
    \E i \in DOMAIN calcResults :
        /\ Cardinality({k \in DOMAIN calcWagers :
               /\ calcWagers[k].userName = calcResults[i].userName
               /\ calcWagers[k].optionId = calcWinning}) = 2
        /\ StakedBy(calcResults[i].userName)
               > StakedOnWinningBy(calcResults[i].userName)
        /\ PoolOnWinning > StakedOnWinningBy(calcResults[i].userName)
        /\ calcResults[i].payout > 0

\* C15: the list returned by calculatePayouts is non-increasing in netWinLoss.
C15_SortedByNet ==
    \A i, j \in DOMAIN calcResults :
        i < j => calcResults[i].netWinLoss >= calcResults[j].netWinLoss

\* three results with different netWinLoss, the user of the first wager last
C15_Witness ==
    /\ PoolOnWinning > 0
    /\ Len(calcResults) = 3
    /\ calcResults[3].userName = calcWagers[1].userName
    /\ calcResults[1].netWinLoss > calcResults[2].netWinLoss
    /\ calcResults[2].netWinLoss > calcResults[3].netWinLoss

\* C16: on Alice 10 on Chiefs, Alice 5 on Eagles, Bob 20 on Chiefs and
\* Carol 15 on Eagles with winner Chiefs the result is Bob (20, 33.33, +13.33),
\* Alice (15, 16.67, +1.67), Carol (15, 0, -15), in this order.
C16_ExampleCalculation ==
    (Len(calcWagers) = Len(ExampleWagers) /\ calcWinning = 1)
        => calcResults
              = <<[userName |-> "Bob", totalWagered |-> 20,
                   payout |-> 3333, netWinLoss |-> 1333],
                  [userName |-> "Alice", totalWagered |-> 15,
                   payout |-> 1667, netWinLoss |-> 167],
                  [userName |-> "Carol", totalWagered |-> 15,
                   payout |-> 0, netWinLoss |-> 0 - 1500]>>

\* the four wagers in the order of the example, Chiefs winning
C16_Witness ==
    /\ calcWagers = ExampleWagers
    /\ calcWinning = 1
    /\ Len(calcResults) = 3
    /\ calcResults[1].userName = "Bob"

\* ------------------------------------------- claims on wagers and the winner
\* the rows of a wagers table that belong to bet b
WagersIn(rows, b) == SelectSeq(rows, LAMBDA w : w.betId = b)

StatusError(status) ==
    IF status = "closed" THEN "Cannot place wager. Bet is closed."
    ELSE "Cannot place wager. Bet is settled."

\* C17 as stated: every wager request on a closed or settled bet is rejected
\* with an error naming the status, and adds no wager.
C17_AlwaysNamesStatus ==
    \A betId \in DOMAIN bets, body \in WagerBodies :
        bets[betId].status # "open"
            => LET r == PlaceWager(betId, body)
               IN  /\ r.resp = Resp(400, StatusError(bets[betId].status))
                   /\ r.wagers = wagers

\* the wagers of bet b are the same after any request of any route
NoRequestChangesWagersOf(b) ==
    /\ \A body \in PartyBodies : WagersIn(CreateParty(body).wagers, b) = WagersIn(wagers, b)
    /\ \A body \in BetBodies : WagersIn(CreateBet(body).wagers, b) = WagersIn(wagers, b)
    /\ \A betId \in BetIdInputs, body \in WagerBodies :
          WagersIn(PlaceWager(betId, body).wagers, b) = WagersIn(wagers, b)
    /\ \A betId \in BetIdInputs, body \in CloseBodies :
          WagersIn(CloseBet(betId, body).wagers, b) = WagersIn(wagers, b)
    /\ \A betId \in BetIdInputs, body \in SettleBodies :
          WagersIn(SettleBet(betId, body).wagers, b) = WagersIn(wagers, b)

\* C17 amended: a wager request on a closed or settled bet is rejected with
\* 400 and changes no table; the error names the status when the body passes
\* the schema and is 'Validation failed' when not; and no request of any
\* route changes the wagers of a bet that is closed or settled.
C17_ClosedBetTakesNoWager ==
    /\ \A betId \in DOMAIN bets, body \in WagerBodies :
          bets[betId].status # "open"
              => LET r == PlaceWager(betId, body)
                 IN  /\ r.resp = IF body.amount > 0
                                 THEN Resp(400, StatusError(bets[betId].status))
                                 ELSE ValidationFailed
                     /\ TablesUnchanged(r)
    /\ \A b \in DOMAIN bets : bets[b].status # "open" => NoRequestChangesWagersOf(b)

\* a wager request on a settled bet that holds a wager has just been refused
\* with the status error
C17_Witness ==
    /\ last.op = "wager"
    /\ last.error = "Cannot place wager. Bet is settled."
    /\ \E i \in DOMAIN wagers : bets[wagers[i].betId].status = "settled"

\* C18: every stored wager's option is an option of the wager's bet; a wager
\* request naming an option that does not exist or belongs to another bet is
\* rejected and adds no wager.
C18_WagerOptionOfOwnBet ==
    /\ \A i \in DOMAIN wagers :
          /\ wagers[i].betId \in DOMAIN bets
          /\ wagers[i].optionId \in DOMAIN betOptions
          /\ betOptions[wagers[i].optionId].betId = wagers[i].betId
    /\ \A betId \in BetIdInputs, body \in WagerBodies :
          ~(/\ body.optionId \in DOMAIN betOptions
            /\ betOptions[body.optionId].betId = betId)
              => LET r == PlaceWager(betId, body)
                 IN  r.resp.code \in {400, 404} /\ TablesUnchanged(r)

\* with two bets and a wager stored, a wager request has just been refused for
\* its option
C18_Witness ==
    /\ last.op = "wager"
    /\ last.error = "Invalid option ID for this bet"
    /\ Len(bets) = 2
    /\ wagers # <<>>

\* C19: a bet's winning option is set if and only if its status is settled;
\* a created bet has none, close leaves it alone, and a settle request that
\* succeeds sets it together with the status.
C19_WinnerIffSettled ==
    /\ \A b \in DOMAIN bets :
          bets[b].winningOptionId # NULL <=> bets[b].status = "settled"
    /\ \A body \in BetBodies :
          LET r == CreateBet(body)
          IN  \A b \in DOMAIN r.bets :
                 b \notin DOMAIN bets => r.bets[b].winningOptionId = NULL
    /\ \A betId \in BetIdInputs, body \in CloseBodies :
          LET r == CloseBet(betId, body)
          IN  \A b \in DOMAIN bets :
                 r.bets[b].winningOptionId = bets[b].winningOptionId
    /\ \A betId \in DOMAIN bets, body \in SettleBodies :
          LET r == SettleBet(betId, body)
          IN  IF r.resp.code = 200
              THEN /\ r.bets[betId].status = "settled"
                   /\ r.bets[betId].winningOptionId = body.winningOptionId
                   /\ body.winningOptionId # NULL
              ELSE r.bets = bets

\* one bet settled with its winner on record, another closed without one
C19_Witness ==
    /\ last.op = "settle"
    /\ last.code = 200
    /\ \E b, c \in DOMAIN bets :
          /\ bets[b].status = "settled" /\ bets[b].winningOptionId # NULL
          /\ bets[c].status = "closed" /\ bets[c].winningOptionId = NULL

\* ------------------------------------- routes/parties: settlement summary
\* userTotals is an object literal ({}) used as a map from user name to sum.
\* It inherits from Object.prototype: reading a key that is not an own
\* property yields the inherited property where there is one, a function for
\* the method names and the prototype object for __proto__.
ObjectPrototypeMethods ==
    {"constructor", "toString", "toLocaleString", "valueOf", "hasOwnProperty",
     "isPrototypeOf", "propertyIsEnumerable"}
ProtoAccessor == "__proto__"

\* the values userTotals holds: a double, or a (non-empty) string
NumberValue(x) == [kind |-> "number", num |-> x]
StringValue == [kind |-> "string", num |-> F64Zero]

\* the reducer callback.  acc lists the own properties in insertion order.
\*   if (!acc[userName]) acc[userName] = 0;  acc[userName] += netWinLoss;
\* An own number: the sum.  No own and no inherited property: 0, then the sum.
\* An inherited method is truthy, so it is not replaced by 0, and function +
\* number is a string, stored as an own property; string + number is a string.
\* __proto__ is truthy too, and assigning a string to it does nothing.
AddSettlement(acc, row) ==
    LET own == {i \in DOMAIN acc : acc[i].userName = row.userName}
        i == CHOOSE k \in own : TRUE
    IN  IF own # {}
        THEN [acc EXCEPT ![i].netAmount =
                 IF @.kind = "string" THEN StringValue
                 ELSE NumberValue(F64Add(@.num, F64OfCents(row.netWinLoss)))]
        ELSE IF row.userName = ProtoAccessor THEN acc
        ELSE IF row.userName \in ObjectPrototypeMethods
             THEN Append(acc, [userName |-> row.userName, netAmount |-> StringValue])
        ELSE Append(acc, [userName |-> row.userName,
                          netAmount |-> NumberValue(F64Add(F64Zero,
                                                 F64OfCents(row.netWinLoss)))])

RECURSIVE UserTotalsFrom(_, _)
UserTotalsFrom(rows, acc) ==
    IF rows = <<>> THEN acc
    ELSE UserTotalsFrom(Tail(rows), AddSettlement(acc, Head(rows)))

\* partySettlements.reduce(..., {}), then Object.entries(userTotals): own
\* properties in insertion order (no name here is an array index)
UserTotals(rows) == UserTotalsFrom(rows, <<>>)

\* b - a > 0 for doubles a and b
F64Greater(b, a) ==
    LET d == F64Add(b, [a EXCEPT !.neg = ~a.neg])
    IN  d.m # <<>> /\ ~d.neg

RECURSIVE InsertByAmount(_, _)
InsertByAmount(sorted, r) ==
    IF sorted = <<>> THEN <<r>>
    ELSE IF F64Greater(r.netAmount.num, Head(sorted).netAmount.num)
         THEN <<r>> \o sorted
         ELSE <<Head(sorted)>> \o InsertByAmount(Tail(sorted), r)

RECURSIVE SortByAmountFrom(_, _)
SortByAmountFrom(rs, sorted) ==
    IF rs = <<>> THEN sorted
    ELSE SortByAmountFrom(Tail(rs), InsertByAmount(sorted, Head(rs)))

\* every order of the elements of rs
OrdersOf(rs) ==
    {[i \in DOMAIN rs |-> rs[p[i]]] :
        p \in {q \in [DOMAIN rs -> DOMAIN rs] :
                  \A i, j \in DOMAIN rs : q[i] = q[j] => i = j}}

\* .sort((a, b) => b.netAmount - a.netAmount): the lists the call may return.
\* With numbers the sort is stable and descending.  With a string among the
\* values the comparator returns NaN, it is not a consistent comparator, and
\* the order is implementation-defined.
SortByAmount(rs) ==
    IF \A i \in DOMAIN rs : rs[i].netAmount.kind = "number"
    THEN {SortByAmountFrom(rs, <<>>)}
    ELSE OrdersOf(rs)

SettlementSummarySettledOnly(partyId) ==
    IF partyId \notin DOMAIN parties
    THEN [resp |-> Resp(404, "Party not found"), users |-> {<<>>}, totalPot |-> 0]
    ELSE LET betIds == {b \in DOMAIN bets : bets[b].partyId = partyId}
             partySettlements ==
                 SelectSeq(settlements, LAMBDA row : row.betId \in betIds)
             partyWagers ==
                 SelectSeq(wagers, LAMBDA w : /\ w.betId \in betIds
                                              /\ bets[w.betId].status = "settled")
         IN  IF betIds = {}
             THEN [resp |-> Resp(200, ""), users |-> {<<>>}, totalPot |-> 0]
             ELSE [resp |-> Resp(200, ""),
                   users |-> SortByAmount(UserTotals(partySettlements)),
                   totalPot |-> SumAmount(partyWagers)]

\* GET /api/parties/:id/settlement-summary: the response, users being the
\* set of lists it may carry
SettlementSummary(partyId) ==
    IF partyId \notin DOMAIN parties
    THEN [resp |-> Resp(404, "Party not found"), users |-> {<<>>}, totalPot |-> 0]
    ELSE LET betIds == {b \in DOMAIN bets : bets[b].partyId = partyId}
             partySettlements ==
                 SelectSeq(settlements, LAMBDA row : row.betId \in betIds)
             partyWagers == SelectSeq(wagers, LAMBDA w : w.betId \in betIds)
         IN  IF betIds = {}
             THEN [resp |-> Resp(200, ""), users |-> {<<>>}, totalPot |-> 0]
             ELSE [resp |-> Resp(200, ""),
                   users |-> SortByAmount(UserTotals(partySettlements)),
                   totalPot |-> SumAmount(partyWagers)]

\* --------------------------------------------------------------- SpecParty
\* parties with their bets, wagers and settlements, and the summary read; the
\* close and settle requests are the host's.  The server runs with HOST_PIN
\* set as the deployment guide says, or without it.
PartyInit ==
    /\ parties = <<>>
    /\ bets = <<>>
    /\ betOptions = <<>>
    /\ wagers = <<>>
    /\ settlements = <<>>
    /\ last = NoRequest
    /\ reqs = <<>>
    /\ started = 0
    /\ calcWagers = <<>>
    /\ calcWinning = 1
    /\ calcResults = <<>>
    /\ expectedPin \in {HOST_PIN, <<>>}

\* hostPin of the body of a party request
PartyPins == PinInputs
\* hostPin of its query string: absent, or the host's
PartyQueryPins == {<<>>, HOST_PIN}

PartyHostBodies ==
    {[EmptyBody EXCEPT !.hostPin = hostPin, !.queryPin = queryPin,
                       !.nameAndDate = nameAndDate] :
        hostPin \in PartyPins, queryPin \in PartyQueryPins,
        nameAndDate \in BOOLEAN}

PartyBetBodies ==
    {[EmptyBody EXCEPT !.createdBy = "Alice", !.options = MinOptions]}

PartyWagerBodies ==
    {[EmptyBody EXCEPT !.userName = userName, !.optionId = optionId,
                       !.amount = amount] :
        userName \in PartyUsers, optionId \in DOMAIN betOptions,
        amount \in PartyAmounts}

PartySettleBodies ==
    {[EmptyBody EXCEPT !.hostPin = HOST_PIN, !.winningOptionId = winningOptionId] :
        winningOptionId \in DOMAIN betOptions}

PartyCreateReq ==
    /\ Len(parties) < MaxPartyParties
    /\ \E body \in PartyHostBodies : Handled("createParty", CreateParty(body))

PartyArchiveReq ==
    \E partyId \in PartyIdInputs, body \in PartyHostBodies :
        Handled("archiveParty", ArchiveParty(partyId, body))

PartyBetReq ==
    /\ Len(bets) < MaxBets
    /\ \E body \in PartyBetBodies : Handled("createBet", CreateBet(body))

PartyWagerReq ==
    /\ Len(wagers) < MaxPartyWagers
    /\ \E betId \in DOMAIN bets, body \in PartyWagerBodies :
          Handled("wager", PlaceWager(betId, body))

PartyCloseReq ==
    \E betId \in DOMAIN bets :
        Handled("close", CloseBet(betId, [EmptyBody EXCEPT !.hostPin = HOST_PIN]))

PartySettleReq ==
    \E betId \in DOMAIN bets, body \in PartySettleBodies :
        Handled("settle", SettleBet(betId, body))

PartySummaryReq ==
    \E partyId \in PartyIdInputs :
        Handled("summary", Unchanged(SettlementSummary(partyId).resp))

PartyNext ==
    \/ PartyCreateReq
    \/ PartyArchiveReq
    \/ PartyBetReq
    \/ PartyWagerReq
    \/ PartyCloseReq
    \/ PartySettleReq
    \/ PartySummaryReq

SpecParty == PartyInit /\ [][PartyNext]_vars

\* ---------------------------------------------------- claims on the summary
\* the settlement records on bets of a party, and the names on them
RowsOfParty(partyId) ==
    {i \in DOMAIN settlements : bets[settlements[i].betId].partyId = partyId}

NamesOfParty(partyId) == {settlements[i].userName : i \in RowsOfParty(partyId)}

RECURSIVE NetOver(_)
\* the sum, in cents, of netWinLoss over the settlement records at I
NetOver(I) ==
    IF I = {} THEN 0
    ELSE LET i == CHOOSE k \in I : TRUE
         IN  settlements[i].netWinLoss + NetOver(I \ {i})

\* C20: the users list of a party's settlement summary has exactly one entry
\* per user name with a settlement record on a bet of the party and none for
\* anyone else, and the entry's netAmount is the sum of that user's netWinLoss
\* over those records (a number; compared to the cent).
C20_SummaryPerUser ==
    \A partyId \in DOMAIN parties :
        \A users \in SettlementSummary(partyId).users :
            /\ {users[i].userName : i \in DOMAIN users} = NamesOfParty(partyId)
            /\ Len(users) = Cardinality(NamesOfParty(partyId))
            /\ \A i \in DOMAIN users :
                  /\ users[i].netAmount.kind = "number"
                  /\ MathRound(F64MulInt(users[i].netAmount.num, 100))
                         = NetOver({k \in RowsOfParty(partyId) :
                               settlements[k].userName = users[i].userName})

\* a >= b as JavaScript evaluates it on two values of userTotals: a string
\* that is not a numeral converts to NaN, and every comparison with NaN is
\* false
ValueAtLeast(a, b) ==
    /\ a.kind = "number"
    /\ b.kind = "number"
    /\ ~F64Greater(b.num, a.num)

\* C21: the users list of a party's settlement summary is sorted
\* non-increasing by netAmount: each entry's netAmount is at least the next
\* entry's.
C21_SummarySorted ==
    \A partyId \in DOMAIN parties :
        \A users \in SettlementSummary(partyId).users :
            \A i \in DOMAIN users :
                i < Len(users) =>
                    ValueAtLeast(users[i].netAmount, users[i + 1].netAmount)

\* the wagers on the bets of a party, whatever the status of the bets
WagersOfParty(partyId) ==
    {i \in DOMAIN wagers : bets[wagers[i].betId].partyId = partyId}

RECURSIVE PotOver(_)
\* the sum of the amounts of the wagers at I
PotOver(I) ==
    IF I = {} THEN 0
    ELSE LET i == CHOOSE k \in I : TRUE
         IN  wagers[i].amount + PotOver(I \ {i})

\* C22: totalPot of a party's settlement summary is the sum of the amounts
\* of all wagers on all bets of the party, open, closed or settled, and 0
\* for a party without bets.
C22_TotalPotAllWagers ==
    \A partyId \in DOMAIN parties :
        /\ SettlementSummary(partyId).resp.code = 200
        /\ SettlementSummary(partyId).totalPot = PotOver(WagersOfParty(partyId))
        /\ (\A b \in DOMAIN bets : bets[b].partyId # partyId)
               => SettlementSummary(partyId).totalPot = 0

\* a summary was answered while one party has a wager on a settled bet and a
\* wager on a bet that is not settled, and another party has no bets
C22_Witness ==
    /\ last.op = "summary"
    /\ last.code = 200
    /\ \E partyId \in DOMAIN parties :
          /\ \E i, j \in WagersOfParty(partyId) :
                /\ bets[wagers[i].betId].status = "settled"
                /\ bets[wagers[j].betId].status # "settled"
          /\ SettlementSummary(partyId).totalPot = 2
    /\ \E partyId \in DOMAIN parties :
          \A b \in DOMAIN bets : bets[b].partyId # partyId

\* ----------------------------------------------------- claims on the parties
\* the active rows of a parties table
ActiveIn(rows) == {i \in DOMAIN rows : rows[i].status = "active"}

\* C23: at most one party is active in every reachable state, and a party
\* creation that succeeds adds one party, leaves it the only active one and
\* leaves every party there was archived.
C23_AtMostOneActiveParty ==
    /\ Cardinality(ActiveIn(parties)) <= 1
    /\ \A body \in PartyHostBodies :
          LET r == CreateParty(body)
          IN  r.resp.code = 201 =>
                  /\ Len(r.parties) = Len(parties) + 1
                  /\ ActiveIn(r.parties) = {Len(r.parties)}
                  /\ \A i \in DOMAIN parties : r.parties[i].status = "archived"
                  /\ r.bets = bets

\* a party was created while there were parties already, after which the
\* new one is active and the others are archived
C23_Witness ==
    /\ last.op = "createParty"
    /\ last.code = 201
    /\ Len(parties) = MaxPartyParties
    /\ ActiveIn(parties) = {Len(parties)}

\* ---------------------------------------------- claims on the wager records
\* C24: no request modifies or deletes a wager record: every wager there is
\* before a step is there after it, with the same user, option, bet and
\* amount.
C24_WagersNeverChange ==
    [][/\ Len(wagers') >= Len(wagers)
       /\ \A i \in DOMAIN wagers : wagers'[i] = wagers[i]]_vars

\* a bet with a wager of each user was settled, and a party was created
\* after the wagers were placed
C24_Witness ==
    /\ Len(wagers) = MaxPartyWagers
    /\ \E b \in DOMAIN bets :
          /\ bets[b].status = "settled"
          /\ \A i \in DOMAIN wagers : wagers[i].betId = b
          /\ \E i, j \in DOMAIN wagers : wagers[i].userName # wagers[j].userName
    /\ last.op = "createParty"
    /\ last.code = 201

\* the host PIN a party request carries, in its body or else its query string
PinCarried(body) == IF body.hostPin # <<>> THEN body.hostPin ELSE body.queryPin

\* the request carries no host PIN, or one that is not the server's
PinMissingOrWrong(body) ==
    PinCarried(body) = <<>> \/ PinCarried(body) # expectedPin

\* a party request of such a body is answered with this code and error,
\* whatever else the body and the path hold, and no table changes
PartyRequestsRefused(body, code) ==
    /\ CreateParty(body).resp.code = code
    /\ TablesUnchanged(CreateParty(body))
    /\ \A partyId \in PartyIdInputs :
          /\ ArchiveParty(partyId, body).resp.code = code
          /\ TablesUnchanged(ArchiveParty(partyId, body))

C27_RecordsOnlyIfSettled ==
    \A i \in DOMAIN settlements : bets[settlements[i].betId].status = "settled"

RECURSIVE WageredOver(_)
\* the sum of totalWagered over the settlement records at I
WageredOver(I) ==
    IF I = {} THEN 0
    ELSE LET i == CHOOSE k \in I : TRUE
         IN  settlements[i].totalWagered + WageredOver(I \ {i})

\* C28: for every settled bet the sum of totalWagered over its settlement
\* records equals the sum of the amounts of the wagers stored for the bet,
\* also when the steps of a wager request interleave with those of a close
\* and a settle request on the bet.
C28_SettledTotalsMatchWagers ==
    \A b \in DOMAIN bets :
        bets[b].status = "settled" =>
            WageredOver({i \in DOMAIN settlements : settlements[i].betId = b})
                = PotOver({i \in DOMAIN wagers : wagers[i].betId = b})

\* ------------------------------------------ claims on the order of wagers
\* the records of a result list, without their order
RecordSet(rs) == {rs[i] : i \in DOMAIN rs}

\* C29: calculatePayouts returns the same records for every order of the
\* same wagers and the same winning option: the same set of (userName,
\* totalWagered, payout, netWinLoss), as many of them, and the same
\* netWinLoss at each place of the list; only records of equal netWinLoss may
\* change places.
C29_OrderInsensitive ==
    \A ws \in OrdersOf(calcWagers) :
        LET rs == calculatePayouts(ws, calcWinning)
        IN  /\ RecordSet(rs) = RecordSet(calcResults)
            /\ Len(rs) = Len(calcResults)
            /\ \A i \in DOMAIN rs : rs[i].netWinLoss = calcResults[i].netWinLoss

\* a list of three wagers, two of them one user's with different amounts on
\* the winning option, one order of which gives the records in another order
C29_Witness ==
    /\ Len(calcWagers) = 3
    /\ \E i, j \in DOMAIN calcWagers :
          /\ calcWagers[i].userName = calcWagers[j].userName
          /\ calcWagers[i].amount # calcWagers[j].amount
          /\ calcWagers[i].optionId = calcWinning
          /\ calcWagers[j].optionId = calcWinning
    /\ \E ws \in OrdersOf(calcWagers) :
          calculatePayouts(ws, calcWinning) # calcResults

\* ------------------------------------- claims on the order of the checks
\* the state error of a close request, and of a settle request
CloseStateError(status) ==
    Resp(400, IF status = "closed" THEN "Cannot close bet. Current status: closed"
              ELSE "Cannot close bet. Current status: settled")

SettleStateError(status) ==
    Resp(400, IF status = "settled" THEN "Bet is already settled"
              ELSE "Bet must be closed before settling. Please close the bet first.")

\* the checks of close in the order status, authorization, on the response
\* resp to a request with this body on this bet
CloseChecksInOrder(betId, body, resp) ==
    /\ bets[betId].status # "open" => resp = CloseStateError(bets[betId].status)
    /\ bets[betId].status = "open" /\ ~Authorized(body, betId) => resp.code = 403
    /\ resp.code = 403 => bets[betId].status = "open"

\* the checks of settle in the order status, winning option, authorization
SettleChecksInOrder(betId, body, resp) ==
    /\ bets[betId].status # "closed" => resp = SettleStateError(bets[betId].status)
    /\ bets[betId].status = "closed" /\ ~OptionOfBet(body.winningOptionId, betId)
          => resp = Resp(400, "Invalid winning option ID for this bet")
    /\ (bets[betId].status = "closed"
           /\ OptionOfBet(body.winningOptionId, betId)
           /\ ~Authorized(body, betId))
          => resp.code = 403
    /\ resp.code = 403
          => /\ bets[betId].status = "closed"
             /\ OptionOfBet(body.winningOptionId, betId)

\* C30 as stated: a rejected close or settle request reports the first
\* failing check in the order status, authorization (close) and status,
\* winning option, authorization (settle): the state error for a bet in the
\* wrong status whoever calls, 403 only for a bet in the right status.
C30_StateErrorWhateverTheBody ==
    \A betId \in DOMAIN bets :
        /\ \A body \in CloseBodies :
              CloseChecksInOrder(betId, body, CloseBet(betId, body).resp)
        /\ \A body \in SettleBodies :
              SettleChecksInOrder(betId, body, SettleBet(betId, body).resp)

\* C30 amended: the same for every request whose body passes the schema of
\* its route; a body that does not (a hostPin that is not four digits, a
\* winningOptionId that is not positive) is answered 'Validation failed'
\* whatever the status of the bet.
C30_ChecksInOrderAfterValidation ==
    \A betId \in DOMAIN bets :
        /\ \A body \in CloseBodies :
              IF PinWellFormed(body)
              THEN CloseChecksInOrder(betId, body, CloseBet(betId, body).resp)
              ELSE CloseBet(betId, body).resp = ValidationFailed
        /\ \A body \in SettleBodies :
              IF body.winningOptionId > 0 /\ PinWellFormed(body)
              THEN SettleChecksInOrder(betId, body, SettleBet(betId, body).resp)
              ELSE SettleBet(betId, body).resp = ValidationFailed

\* a close request on a settled bet has just been answered with the state
\* error, and so is the close request of a caller who is neither the host
\* nor the creator
C30_Witness ==
    /\ last.op = "close"
    /\ \E b \in DOMAIN bets :
          /\ bets[b].status = "settled"
          /\ last.error = CloseStateError("settled").error
          /\ \E body \in CloseBodies :
                /\ PinWellFormed(body)
                /\ ~Authorized(body, b)
                /\ CloseBet(b, body).resp = CloseStateError("settled")

====
